---- MODULE Spec2Model ----
(***************************************************************************)
(* Model of the streak tracker: DatePoint / TimeframeGroup (date_point.py), *)
(* binary_groupby (utilities.py), the Project API (controller.py) and the   *)
(* data / cache managers it persists through (data.py).                     *)
(*                                                                         *)
(* Time is counted in ticks of the clock's resolution (one microsecond in   *)
(* the source); a day is DayTicks ticks long and an hour HourTicks.         *)
(***************************************************************************)
EXTENDS Integers, Sequences, FiniteSets, TLC

\* ---------------------------------------------------------------- bounds
DayTicks == 3
MaxTime == 6
MaxLog == 3
MaxLogLong == 4
MaxDays == (MaxTime \div DayTicks) + 1

\* timedelta(hours=1), scaled to ticks
HourTicks == 2

Instants == 0..MaxTime

\* Optional values: None is the empty sequence, Some(x) a one-element one
None == <<>>
Some(x) == <<x>>
IsNone(o) == o = <<>>
Get(o) == o[1]

VARIABLES
    now,            \* the clock read by DatePoint.now()
    data_file,      \* rows of the csv data file, in file order
    cache_file,     \* 'start_time' entry of the json cache file
    cache_mem,      \* 'start_time' entry of CacheManager._cache
    op,             \* the operation that produced this state
    overwrite,      \* the overwrite argument, when the last operation is start()
    ret,            \* what the last operation returned
    pre_start,      \* start_time as the last operation found it
    pre_log         \* the data file as the last operation found it

vars == <<now, data_file, cache_file, cache_mem,
          op, overwrite, ret, pre_start, pre_log>>

\* ------------------------------------------------------------ date_point
Timeframe_day == "day"

RANGE_INDICATORS == <<"0", "1">>
SEPERATOR_CHAR == " "

DatePoint(first_date, second_date) ==
    IF IsNone(second_date)
    THEN [is_range |-> FALSE, first_date |-> first_date]
    ELSE [is_range |-> TRUE, first_date |-> first_date,
          second_date |-> Get(second_date)]

freeze(dp) ==
    IF dp.is_range
    THEN <<RANGE_INDICATORS[2], dp.first_date, SEPERATOR_CHAR, dp.second_date>>
    ELSE <<RANGE_INDICATORS[1], dp.first_date>>

unfreeze(freezed) ==
    IF freezed[1] = RANGE_INDICATORS[2]
    THEN Some(DatePoint(freezed[2], Some(freezed[4])))
    ELSE IF freezed[1] = RANGE_INDICATORS[1]
    THEN Some(DatePoint(freezed[2], None))
    ELSE None

\* DatePoint.unfreeze reads the tag as freezed[0] inside a try that catches
\* ValueError only: on the empty string the subscript raises IndexError
unfreeze_raises(freezed) == Len(freezed) = 0

\* The calendar of an instant, as arrow reads it off a tick count: a second
\* is one tick, a minute SecondsPerMinute seconds; a day holds
\* HoursPerDay hours (the last one cut short when HourTicks does not divide
\* DayTicks), a week DaysPerWeek days, a month DaysPerMonth days, a year
\* MonthsPerYear months.
SecondsPerMinute == 2
MinuteTicks == SecondsPerMinute
HoursPerDay == ((DayTicks - 1) \div HourTicks) + 1
DaysPerWeek == 2
WeekTicks == DaysPerWeek * DayTicks
DaysPerMonth == 4
MonthTicks == DaysPerMonth * DayTicks
MonthsPerYear == 2
YearTicks == MonthsPerYear * MonthTicks

arrow_year(t) == t \div YearTicks
arrow_month(t) == ((t % YearTicks) \div MonthTicks) + 1
arrow_toordinal(t) == t \div DayTicks
arrow_hour(t) == (t % DayTicks) \div HourTicks
arrow_timestamp(t) == t
\* isocalendar()[1]: the number of the week within its year
arrow_isoweek(t) == ((t % YearTicks) \div WeekTicks) + 1

\* Arrow.floor(frame): the first instant of the period of t
arrow_floor(t, timeframe) ==
    CASE timeframe = "day" -> arrow_toordinal(t) * DayTicks
      [] timeframe = "year" -> arrow_year(t) * YearTicks
      [] timeframe = "month" -> (t \div MonthTicks) * MonthTicks
      [] timeframe = "week" -> (t \div WeekTicks) * WeekTicks
      [] timeframe = "hour" ->
             arrow_toordinal(t) * DayTicks + arrow_hour(t) * HourTicks
      [] timeframe = "minute" -> (t \div MinuteTicks) * MinuteTicks
      [] timeframe = "second" -> t

\* Arrow.ceil(frame): the last instant of the period of t
arrow_ceil(t, timeframe) ==
    CASE timeframe = "day" -> arrow_floor(t, timeframe) + DayTicks - 1
      [] timeframe = "year" -> arrow_floor(t, timeframe) + YearTicks - 1
      [] timeframe = "month" -> arrow_floor(t, timeframe) + MonthTicks - 1
      [] timeframe = "week" -> arrow_floor(t, timeframe) + WeekTicks - 1
      [] timeframe = "hour" ->
             LET next_hour == arrow_floor(t, timeframe) + HourTicks
                 next_day == (arrow_toordinal(t) + 1) * DayTicks
             IN  (IF next_hour < next_day THEN next_hour ELSE next_day) - 1
      [] timeframe = "minute" -> arrow_floor(t, timeframe) + MinuteTicks - 1
      [] timeframe = "second" -> arrow_floor(t, timeframe)

\* DatePoint.ordinal raises AttributeError for the week, where it calls
\* date.isocalender(), a method neither Arrow nor datetime has, and
\* when it reads _second_date of a point that is not a range
ordinal_raises(dp, timeframe, use_start) ==
    \/ ~use_start /\ ~dp.is_range
    \/ timeframe = "week"

\* DatePoint.ordinal; for the week, what iso[1] would be
ordinal(dp, timeframe, use_start) ==
    LET date == IF use_start THEN dp.first_date ELSE dp.second_date
    IN  CASE timeframe = "day" -> arrow_toordinal(date)
          [] timeframe = "year" -> arrow_year(date)
          [] timeframe = "month" ->
                 arrow_year(date) * MonthsPerYear + arrow_month(date)
          [] timeframe = "week" -> arrow_isoweek(date)
          [] timeframe = "hour" ->
                 arrow_toordinal(date) * HoursPerDay + arrow_hour(date)
          [] timeframe = "minute" ->
                 arrow_timestamp(date) \div SecondsPerMinute
          [] timeframe = "second" -> arrow_timestamp(date)

same(self, other, timeframe) ==
    ordinal(self, timeframe, TRUE) = ordinal(other, timeframe, TRUE)

consecutive(self, other, timeframe) ==
    LET d == ordinal(self, timeframe, TRUE) - ordinal(other, timeframe, TRUE)
    IN  (IF d < 0 THEN -d ELSE d) = 1

within_streak(self, other, timeframe) ==
    same(self, other, timeframe) \/ consecutive(self, other, timeframe)

after(self, other, timeframe) ==
    ordinal(self, timeframe, TRUE) > ordinal(other, timeframe, TRUE)

before(self, other, timeframe) ==
    ordinal(self, timeframe, TRUE) < ordinal(other, timeframe, TRUE)

floor(dp, timeframe) == arrow_floor(dp.first_date, timeframe)

total_time(dp) ==
    IF dp.is_range THEN dp.second_date - dp.first_date ELSE HourTicks

\* split_range with the loop test written `<=`
split_range_le(dp, timeframe) ==
    LET loop[i \in 0..(MaxDays + 1)] ==
            IF i = 0
            THEN <<<<>>, dp.first_date, arrow_ceil(dp.first_date, timeframe)>>
            ELSE LET prev == loop[i - 1]
                 IN  IF prev[3] <= dp.second_date
                     THEN <<Append(prev[1], DatePoint(prev[2], Some(prev[3]))),
                            prev[3] + 1,
                            arrow_ceil(prev[3] + 1, timeframe)>>
                     ELSE prev
        last == loop[MaxDays + 1]
    IN  Append(last[1], DatePoint(last[2], Some(dp.second_date)))

\* the generator of split_range: <<pieces yielded, first, second>> after i
\* turns of the while loop, then the final yield
split_range(dp, timeframe) ==
    LET loop[i \in 0..MaxDays] ==
            IF i = 0
            THEN <<<<>>, dp.first_date, arrow_ceil(dp.first_date, timeframe)>>
            ELSE LET prev == loop[i - 1]
                 IN  IF prev[3] < dp.second_date
                     THEN <<Append(prev[1], DatePoint(prev[2], Some(prev[3]))),
                            prev[3] + 1,
                            arrow_ceil(prev[3] + 1, timeframe)>>
                     ELSE prev
        last == loop[MaxDays]
    IN  Append(last[1], DatePoint(last[2], Some(dp.second_date)))

\* ------------------------------------------------------------- utilities
\* binary_groupby is a generator: next(iterator) on an exhausted iterator
\* raises StopIteration inside it.  An interpreter without generator_stop
\* ends the generator quietly there; one with it (PEP 479) makes it a
\* RuntimeError.  Both interpreters run this code.
GeneratorStop == BOOLEAN

binary_groupby_raises(iterator, generator_stop) ==
    generator_stop /\ Len(iterator) = 0

\* the items of a sequence
items(iterator) == {iterator[i] : i \in 1..Len(iterator)}

\* binary_groupby that extends the run when the key does not hold
binary_groupby_inverted_key(iterator, key) ==
    LET loop[i \in 1..Len(iterator)] ==
            IF i = 1
            THEN <<<<>>, <<iterator[1]>>>>
            ELSE LET prev == loop[i - 1]
                 IN  IF ~key[iterator[i - 1], iterator[i]]
                     THEN <<prev[1], Append(prev[2], iterator[i])>>
                     ELSE <<Append(prev[1], prev[2]), <<iterator[i]>>>>
    IN  IF Len(iterator) = 0
        THEN <<>>
        ELSE Append(loop[Len(iterator)][1], loop[Len(iterator)][2])

\* <<runs yielded, result_list>> after consuming i items; key is the
\* boolean 'streak' function on pairs of items
binary_groupby(iterator, key) ==
    LET loop[i \in 1..Len(iterator)] ==
            IF i = 1
            THEN <<<<>>, <<iterator[1]>>>>
            ELSE LET prev == loop[i - 1]
                 IN  IF key[iterator[i - 1], iterator[i]]
                     THEN <<prev[1], Append(prev[2], iterator[i])>>
                     ELSE <<Append(prev[1], prev[2]), <<iterator[i]>>>>
    IN  IF Len(iterator) = 0
        THEN <<>>
        ELSE Append(loop[Len(iterator)][1], loop[Len(iterator)][2])

\* -------------------------------------------------------- TimeframeGroup
TimeframeGroup(date_list, timeframe) ==
    [date_list |-> date_list,
     group_date |-> DatePoint(floor(date_list[1], timeframe), None)]

group_total_time(group) ==
    LET sum[i \in 0..Len(group.date_list)] ==
            IF i = 0 THEN 0 ELSE sum[i - 1] + total_time(group.date_list[i])
    IN  sum[Len(group.date_list)]

\* group_timeframes with a key that never holds
group_timeframes_singletons(datepoint_list, timeframe) ==
    LET runs == binary_groupby(
                    datepoint_list,
                    [x \in items(datepoint_list), y \in items(datepoint_list)
                        |-> FALSE])
    IN  [i \in 1..Len(runs) |-> TimeframeGroup(runs[i], Timeframe_day)]

group_timeframes(datepoint_list, timeframe) ==
    LET runs == binary_groupby(
                    datepoint_list,
                    [x \in items(datepoint_list), y \in items(datepoint_list)
                        |-> same(x, y, timeframe)])
    IN  [i \in 1..Len(runs) |-> TimeframeGroup(runs[i], Timeframe_day)]

\* ------------------------------------------------------------------ data
\* DataManager.date_list reads every row of the file and unfreezes it
read_dates(file) == [i \in 1..Len(file) |-> Get(unfreeze(file[i]))]

date_list == read_dates(data_file)

\* add_date that writes the new row at the head of the file
add_date_at_head(file, date) == <<freeze(date)>> \o file

\* DataManager.add_date appends one frozen row to the file
add_date(file, date) == Append(file, freeze(date))

\* CacheManager.cache: the dict is loaded from the file on first use; only
\* this process writes the file, so that is the file as the process found it
cache == cache_mem

\* CacheManager.start_time getter
start_time ==
    IF IsNone(cache) THEN None ELSE unfreeze(Get(cache))

\* CacheManager.start_time setter: the new in-memory cache
set_start_time(value) ==
    IF IsNone(value) THEN None ELSE Some(freeze(Get(value)))

\* CacheManager.save: what the cache file holds afterwards
cache_save == cache_mem

\* CacheManager.cache and start_time in a process that starts now: the cache
\* is loaded from the cache file
persisted_start_time ==
    IF IsNone(cache_file) THEN None ELSE unfreeze(Get(cache_file))

\* a ConfigManager that also had the save_data method Project.close calls
ConfigManagerAttrs_with_save_data ==
    {"LOCAL_DIRNAME", "ENVIRONMENT_OVERRIDE", "GLOBAL_DIRNAME",
     "DEFAULT_GLOBAL_LOCATION", "GLOBAL_DIRPATH", "CACHE_DIRNAME",
     "DATA_DIRNAME", "CONFIG_FILENAME",
     "config_dirpath", "location_type", "config_filepath", "timeframe",
     "finished_threshold", "_data_config", "_cache_config", "data", "cache",
     "to_dict", "default", "freeze", "unfreeze", "from_file", "find_config",
     "save_dict", "merge_config", "save", "save_data", "configure",
     "_find_local", "_find_global", "_find_env", "_config_location",
     "_config_dirpath", "_config_location_type", "_config_filepath",
     "validate", "create_config_location", "setup"}

\* the attributes a ConfigManager instance has: those its class defines and
\* those __init__ sets
ConfigManagerAttrs ==
    {"LOCAL_DIRNAME", "ENVIRONMENT_OVERRIDE", "GLOBAL_DIRNAME",
     "DEFAULT_GLOBAL_LOCATION", "GLOBAL_DIRPATH", "CACHE_DIRNAME",
     "DATA_DIRNAME", "CONFIG_FILENAME",
     "config_dirpath", "location_type", "config_filepath", "timeframe",
     "finished_threshold", "_data_config", "_cache_config", "data", "cache",
     "to_dict", "default", "freeze", "unfreeze", "from_file", "find_config",
     "save_dict", "merge_config", "save", "configure", "_find_local",
     "_find_global", "_find_env", "_config_location", "_config_dirpath",
     "_config_location_type", "_config_filepath", "validate",
     "create_config_location", "setup"}

\* the units a configuration may name
Timeframes == {"year", "month", "week", "day", "hour", "minute", "second"}

\* ConfigManager.__init__: the timeframe and finished_threshold it holds,
\* defaulted when not given
ConfigManager(tf, threshold) ==
    [timeframe |-> IF IsNone(tf) THEN Timeframe_day ELSE Get(tf),
     finished_threshold |->
         IF IsNone(threshold) THEN HourTicks ELSE Get(threshold)]

\* ConfigManager.save: save_dict, data.save (nothing to do), cache.save
config_save == cache_save

\* --------------------------------------------------------------- Project
finished_threshold == HourTicks
timeframe == Timeframe_day

\* Project.__init__: what the Project built from `config` works with
Project(config) ==
    [config |-> config,
     finished_threshold |-> finished_threshold,
     timeframe |-> timeframe]

timeframe_groups_raises(generator_stop) ==
    binary_groupby_raises(date_list, generator_stop)
timeframe_groups == group_timeframes(date_list, timeframe)

is_finished(timeframe_group) ==
    group_total_time(timeframe_group) >= finished_threshold

group_ordinal(group, tf) == ordinal(group.group_date, tf, TRUE)

\* finished_groups without the filter
finished_groups_unfiltered == timeframe_groups

finished_groups ==
    SelectSeq(timeframe_groups, is_finished)

finished_streaks_raises(generator_stop) ==
    \/ timeframe_groups_raises(generator_stop)
    \/ binary_groupby_raises(finished_groups, generator_stop)

finished_streaks ==
    LET groups == finished_groups
    IN  binary_groupby(
            groups,
            [x \in items(groups), y \in items(groups)
                |-> within_streak(x.group_date, y.group_date, timeframe)])

current_streak_raises(generator_stop) ==
    finished_streaks_raises(generator_stop)

\* current_streak that accepts only a streak ending in now's period
current_streak_same_period ==
    LET current == DatePoint(now, None)
        streaks == finished_streaks
    IN  IF Len(streaks) = 0
        THEN None
        ELSE LET last_streak == streaks[Len(streaks)]
                 last_entry == last_streak[Len(last_streak)]
             IN  IF same(current, last_entry.group_date, timeframe)
                 THEN Some(last_streak)
                 ELSE None

current_streak ==
    LET current == DatePoint(now, None)
        streaks == finished_streaks
    IN  IF Len(streaks) = 0
        THEN None
        ELSE LET last_streak == streaks[Len(streaks)]
                 last_entry == last_streak[Len(last_streak)]
             IN  IF within_streak(current, last_entry.group_date, timeframe)
                 THEN Some(last_streak)
                 ELSE None

streak_raises(generator_stop) == current_streak_raises(generator_stop)

streak ==
    LET found == current_streak
    IN  IF IsNone(found) THEN 0 ELSE Len(Get(found))

total_time_on_raises(date, generator_stop) ==
    timeframe_groups_raises(generator_stop)

\* Project.total_time_on over the groups `frames`
total_time_on_in(frames, date) ==
    LET datepoint == DatePoint(date, None)
        matches == {i \in 1..Len(frames) :
                        same(frames[i].group_date, datepoint, timeframe)}
    IN  IF matches = {}
        THEN 0
        ELSE LET first == CHOOSE i \in matches : \A j \in matches : i <= j
             IN  group_total_time(frames[first])

total_time_on(date) == total_time_on_in(timeframe_groups, date)

\* start that never takes the Idle branch
start_sets_needs_active(st, current, ow) ==
    ~IsNone(st) /\ (~same(current, Get(st), timeframe) \/ ow)

\* start with the period test inverted
start_sets_same_period(st, current, ow) ==
    IsNone(st) \/ same(current, Get(st), timeframe) \/ ow

\* start that ignores its overwrite argument
start_sets_ignores_overwrite(st, current, ow) ==
    IsNone(st) \/ ~same(current, Get(st), timeframe)

\* Project.start: the test that lets it (re)set start_time
start_sets(st, current, ow) ==
    IsNone(st) \/ ~same(current, Get(st), timeframe) \/ ow

\* stop that never splits the range
stop_records_unsplit(st, current) ==
    <<DatePoint(Get(st).first_date, Some(current.first_date))>>

\* Project.stop: the records it hands to add_date, in order
stop_records(st, current) ==
    LET this_range == DatePoint(Get(st).first_date, Some(current.first_date))
    IN  IF same(current, Get(st), timeframe)
        THEN <<this_range>>
        ELSE split_range(this_range, timeframe)

\* finish that only records in a period after the last record's
finish_records_after_only(dates, groups, current) ==
    IF Len(dates) > 0
    THEN after(current, dates[Len(dates)], timeframe)
    ELSE TRUE

\* Project.finish: the test that lets it record the marker
finish_records(dates, groups, current) ==
    IF Len(dates) > 0
    THEN LET last_date == dates[Len(dates)]
             last_frame_finished == is_finished(groups[Len(groups)])
         IN  after(current, last_date, timeframe)
             \/ (same(current, last_date, timeframe) /\ ~last_frame_finished)
    ELSE TRUE

\* add_date for each record of a sequence, in order
add_dates(file, dates) ==
    LET loop[i \in 0..Len(dates)] ==
            IF i = 0 THEN file ELSE add_date(loop[i - 1], dates[i])
    IN  loop[Len(dates)]

\* Project.current_range_time (DatePoint.__sub__ on the anchors)
current_range_time ==
    IF ~IsNone(start_time) THEN now - Get(start_time).first_date ELSE 0

\* Project.total_time_current
total_time_current == total_time_on(now) + current_range_time

\* the fill_boundries decorator: start defaults to the first group's date
\* when there are groups, end to now
fill_boundries_raises(start, generator_stop) ==
    IsNone(start) /\ timeframe_groups_raises(generator_stop)

fill_boundries(start, end) ==
    [start |-> IF IsNone(start) /\ Len(timeframe_groups) > 0
               THEN Some(timeframe_groups[1].group_date)
               ELSE start,
     end |-> IF IsNone(end) THEN Some(DatePoint(now, None)) ELSE end]

\* arrow.Arrow.range(frame, start, end): start, start + 1 frame, ... while
\* not past end
arrow_range(frame, start, end) ==
    IF start > end
    THEN <<>>
    ELSE [i \in 1..(((end - start) \div DayTicks) + 1)
             |-> start + (i - 1) * DayTicks]

filled_range_raises(start, end, generator_stop) ==
    fill_boundries_raises(start, generator_stop)

\* Project.filled_range: a list of instants
filled_range(start, end) ==
    LET b == fill_boundries(start, end)
    IN  IF IsNone(b.start) \/ IsNone(b.end)
        THEN <<>>
        ELSE arrow_range(timeframe, Get(b.start).first_date,
                         Get(b.end).first_date)

\* DatePoint.__eq__ raises AttributeError when it reaches _second_date of
\* a point that is not a range: the constructor sets it for ranges only
DatePoint_eq_raises(self, other) ==
    /\ self.is_range = other.is_range
    /\ self.first_date = other.first_date
    /\ ~self.is_range

\* DatePoint.__eq__ when it returns
DatePoint_eq(self, other) ==
    IF self.is_range # other.is_range
    THEN FALSE
    ELSE /\ self.first_date = other.first_date
         /\ self.is_range
         /\ self.second_date = other.second_date

\* DatePoint.__gt__: compares the anchors
DatePoint_gt(self, other) == self.first_date > other.first_date

\* bisect.bisect_left(frames, x): `frames[mid] < x` falls back to the
\* reflected x.__gt__(frames[mid]); x is an optional DatePoint, compared
\* only when there are frames
bisect_left(frames, x) ==
    LET n == Len(frames)
        search[p \in (0..n) \X (0..n)] ==
            LET lo == p[1]
                hi == p[2]
                mid == (lo + hi) \div 2
            IN  IF lo >= hi
                THEN lo
                ELSE IF DatePoint_gt(Get(x), frames[mid + 1].group_date)
                     THEN search[<<mid + 1, hi>>]
                     ELSE search[<<lo, mid>>]
    IN  search[<<0, n>>]

\* bisect.bisect(frames, x), the right bisection: `x < frames[mid]` falls
\* back to the reflected frames[mid].__gt__(x)
bisect(frames, x) ==
    LET n == Len(frames)
        search[p \in (0..n) \X (0..n)] ==
            LET lo == p[1]
                hi == p[2]
                mid == (lo + hi) \div 2
            IN  IF lo >= hi
                THEN lo
                ELSE IF DatePoint_gt(frames[mid + 1].group_date, Get(x))
                     THEN search[<<lo, mid>>]
                     ELSE search[<<mid + 1, hi>>]
    IN  search[<<0, n>>]

\* Project.timeframe_range: frames[start_index:end_index]
timeframe_range(start, end) ==
    LET b == fill_boundries(start, end)
        frames == timeframe_groups
        start_index == bisect_left(frames, b.start)
        end_index == bisect(frames, b.end)
    IN  SubSeq(frames, start_index + 1, end_index)

\* Project.timeframe_range raises when the decorator or its own read of
\* timeframe_groups does
timeframe_range_raises(start, end, generator_stop) ==
    \/ fill_boundries_raises(start, generator_stop)
    \/ timeframe_groups_raises(generator_stop)

\* the start and end filters of Project.streaks_range
startf(a_streak, start, strict) ==
    IF strict
    THEN \A i \in 1..Len(a_streak) :
            before(start, a_streak[i].group_date, timeframe)
    ELSE \E i \in 1..Len(a_streak) :
            \/ before(start, a_streak[i].group_date, timeframe)
            \/ same(start, a_streak[i].group_date, timeframe)

endf(a_streak, end, strict) ==
    IF strict
    THEN \A i \in 1..Len(a_streak) :
            after(end, a_streak[i].group_date, timeframe)
    ELSE \E i \in 1..Len(a_streak) :
            \/ after(end, a_streak[i].group_date, timeframe)
            \/ same(end, a_streak[i].group_date, timeframe)

\* Project.streaks_range raises when the decorator or finished_streaks
\* does, or with IndexError when a streak passes startf and none passes endf
streaks_range_raises(start, end, strict, generator_stop) ==
    LET b == fill_boundries(start, end)
        streaks == finished_streaks
    IN  \/ fill_boundries_raises(start, generator_stop)
        \/ finished_streaks_raises(generator_stop)
        \/ /\ \E i \in 1..Len(streaks) : startf(streaks[i], Get(b.start), strict)
           /\ ~\E i \in 1..Len(streaks) : endf(streaks[i], Get(b.end), strict)

\* Project.streaks_range: from the first streak passing startf through the
\* last passing endf; empty when none passes startf (and when it raises)
streaks_range(start, end, strict) ==
    LET b == fill_boundries(start, end)
        streaks == finished_streaks
        passing_start == {i \in 1..Len(streaks) :
                             startf(streaks[i], Get(b.start), strict)}
        passing_end == {i \in 1..Len(streaks) :
                           endf(streaks[i], Get(b.end), strict)}
    IN  IF passing_start = {} \/ passing_end = {}
        THEN <<>>
        ELSE LET start_streak ==
                     CHOOSE i \in passing_start : \A j \in passing_start : i <= j
                 end_streak ==
                     CHOOSE i \in passing_end : \A j \in passing_end : i >= j
             IN  SubSeq(streaks, start_streak, end_streak)

\* Project.streaks_boolean raises when the decorator does, or when there
\* is a frame to look up and total_time_on raises
streaks_boolean_raises(start, end, generator_stop) ==
    \/ fill_boundries_raises(start, generator_stop)
    \/ /\ Len(filled_range(start, end)) > 0
       /\ timeframe_groups_raises(generator_stop)

\* Project.streaks_boolean: "True" / "False" per frame, "None" for a last
\* frame that could still be finished
streaks_boolean(start, end) ==
    LET b == fill_boundries(start, end)
        frames == filled_range(b.start, b.end)
        result == [i \in 1..Len(frames) |->
                      IF total_time_on(frames[i]) >= finished_threshold
                      THEN "True" ELSE "False"]
    IN  IF /\ same(DatePoint(now, None), Get(b.end), timeframe)
           /\ Len(result) > 0
           /\ result[Len(result)] = "False"
        THEN [result EXCEPT ![Len(result)] = "None"]
        ELSE result

\* ------------------------------------------------------------ operations
Init ==
    /\ now \in 0..(DayTicks - 1)
    /\ data_file = <<>>
    /\ cache_file = None
    /\ cache_mem = None
    /\ op = "init"
    /\ overwrite = FALSE
    /\ ret = None
    /\ pre_start = None
    /\ pre_log = <<>>

observe(name) ==
    /\ op' = name
    /\ pre_start' = start_time
    /\ pre_log' = data_file

start(ow) ==
    LET current == DatePoint(now, None)
    IN  /\ observe("start")
        /\ overwrite' = ow
        /\ IF start_sets(start_time, current, ow)
           THEN /\ cache_mem' = set_start_time(Some(current))
                /\ ret' = Some(current)
           ELSE /\ cache_mem' = cache_mem
                /\ ret' = None
        /\ UNCHANGED <<now, data_file, cache_file>>

\* stop that returns now whether or not a session was open
stop_returns_when_idle(limit) ==
    LET current == DatePoint(now, None)
    IN  /\ observe("stop")
        /\ IF ~IsNone(start_time)
           THEN /\ Len(data_file) + Len(stop_records(start_time, current))
                       <= limit
                /\ data_file' = add_dates(data_file,
                                          stop_records(start_time, current))
           ELSE /\ data_file' = data_file
        /\ cache_mem' = set_start_time(None)
        /\ ret' = Some(current)
        /\ overwrite' = FALSE
        /\ UNCHANGED <<now, cache_file>>

stop(limit) ==
    LET current == DatePoint(now, None)
    IN  /\ observe("stop")
        /\ IF ~IsNone(start_time)
           THEN /\ Len(data_file) + Len(stop_records(start_time, current))
                       <= limit
                /\ data_file' = add_dates(data_file,
                                          stop_records(start_time, current))
                /\ cache_mem' = set_start_time(None)
                /\ ret' = Some(current)
           ELSE /\ data_file' = data_file
                /\ cache_mem' = cache_mem
                /\ ret' = None
        /\ overwrite' = FALSE
        /\ UNCHANGED <<now, cache_file>>

finish(limit) ==
    LET current == DatePoint(now, None)
    IN  /\ observe("finish")
        /\ IF finish_records(date_list, timeframe_groups, current)
           THEN /\ Len(data_file) < limit
                /\ data_file' = add_date(data_file, current)
                /\ ret' = Some(current)
           ELSE /\ data_file' = data_file
                /\ ret' = None
        /\ overwrite' = FALSE
        /\ UNCHANGED <<now, cache_file, cache_mem>>

\* Project.close, run by atexit when the process ends: it calls
\* config.save_data(), an AttributeError unless ConfigManager has it.  The
\* next process loads its cache from the file.
close ==
    /\ observe("close")
    /\ cache_file' = IF "save_data" \in ConfigManagerAttrs
                     THEN config_save
                     ELSE cache_file
    /\ cache_mem' = cache_file'
    /\ ret' = None
    /\ overwrite' = FALSE
    /\ UNCHANGED <<now, data_file>>

\* a query (timeframe_groups, finished_streaks, current_streak, streak,
\* total_time_on, total_time_current, the range queries, streaks_boolean):
\* it reads the log and the cache and assigns nothing
query ==
    /\ observe("query")
    /\ ret' = None
    /\ overwrite' = FALSE
    /\ UNCHANGED <<now, data_file, cache_file, cache_mem>>

\* the clock moves on
tick ==
    /\ \E t \in (now + 1)..(now + DayTicks) :
          /\ t <= MaxTime
          /\ now' = t
    /\ op' = "tick"
    /\ pre_start' = None
    /\ pre_log' = <<>>
    /\ ret' = None
    /\ overwrite' = FALSE
    /\ UNCHANGED <<data_file, cache_file, cache_mem>>

\* the operations, on a data file that holds at most `limit` rows
Next(limit) ==
    \/ \E ow \in BOOLEAN : start(ow)
    \/ stop(limit)
    \/ finish(limit)
    \/ close
    \/ query
    \/ tick

Spec == Init /\ [][Next(MaxLog)]_vars

\* the same operations on longer logs
SpecLong == Init /\ [][Next(MaxLogLong)]_vars

TypeOK ==
    /\ now \in Instants
    /\ Len(data_file) <= MaxLogLong
    /\ op \in {"init", "start", "stop", "finish", "close", "query", "tick"}

\* ================================================================ claims
current_point == DatePoint(now, None)

today == ordinal(current_point, timeframe, TRUE)

\* the records the last operation appended
appended == SubSeq(date_list, Len(pre_log) + 1, Len(date_list))

log_extends == /\ Len(pre_log) <= Len(data_file)
               /\ SubSeq(data_file, 1, Len(pre_log)) = pre_log

\* total time recorded in period d: every record anchored in d counts
period_total(d) ==
    LET sum[i \in 0..Len(date_list)] ==
            IF i = 0 THEN 0
            ELSE sum[i - 1]
                 + (IF ordinal(date_list[i], Timeframe_day, TRUE) = d
                    THEN total_time(date_list[i]) ELSE 0)
    IN  sum[Len(date_list)]

period_finished(d) == d >= 0 /\ period_total(d) >= HourTicks

\* number of periods in the maximal run of finished periods ending at e
run_length(e) ==
    Cardinality({d \in 0..e : \A k \in d..e : period_finished(k)})

expected_streak ==
    IF period_finished(today) THEN run_length(today)
    ELSE IF period_finished(today - 1) THEN run_length(today - 1)
    ELSE 0

\* C1: with timeframe=day and threshold=1h, after any sequence of
\* start/stop/finish calls from an empty log under a non-decreasing clock,
\* streak is the number of distinct consecutive finished periods in the
\* maximal run ending at now's period or the one before it, and 0 when
\* neither of the two is finished.
C1_StreakCountsFinishedRun == streak = expected_streak

\* C2: stop() while Active with now in the period of start_time appends
\* exactly the one range record [start_time, now], clears start_time and
\* returns now; total_time_on(now) has then grown by exactly now - start_time.
C2_SamePeriodStop ==
    (op = "stop" /\ ~IsNone(pre_start)
       /\ same(current_point, Get(pre_start), timeframe))
    => /\ log_extends
       /\ appended = <<DatePoint(Get(pre_start).first_date, Some(now))>>
       /\ IsNone(start_time)
       /\ ret = Some(current_point)
       /\ total_time_on(now)
            = total_time_on_in(group_timeframes(read_dates(pre_log), timeframe),
                               now)
              + (now - Get(pre_start).first_date)

\* C3: stop() while Active with now in a later period than start_time
\* appends exactly ordinal(now) - ordinal(start_time) + 1 range records in
\* chronological order, one for each period from start_time's through now's,
\* the first beginning at start_time and the last ending at now; it clears
\* start_time and returns now.
C3_CrossPeriodStop ==
    (op = "stop" /\ ~IsNone(pre_start)
       /\ after(current_point, Get(pre_start), timeframe))
    => LET k == today - ordinal(Get(pre_start), timeframe, TRUE) + 1
       IN  /\ log_extends
           /\ Len(appended) = k
           /\ \A i \in 1..Len(appended) :
                 /\ appended[i].is_range
                 /\ appended[i].first_date <= appended[i].second_date
                 /\ ordinal(appended[i], timeframe, TRUE)
                      = ordinal(Get(pre_start), timeframe, TRUE) + i - 1
                 /\ i > 1 => appended[i - 1].second_date < appended[i].first_date
           /\ appended[1].first_date = Get(pre_start).first_date
           /\ appended[Len(appended)].second_date = now
           /\ IsNone(start_time)
           /\ ret = Some(current_point)

C3_ThreePeriodsStopped ==
    /\ op = "stop" /\ ~IsNone(pre_start)
    /\ today = ordinal(Get(pre_start), timeframe, TRUE) + 2
    /\ Len(appended) = 3

\* C4: in every reachable state every range record of the log lies within
\* one timeframe period: its two instants have the same ordinal.
C4_RangesWithinOnePeriod ==
    \A i \in 1..Len(date_list) :
        date_list[i].is_range
        => ordinal(date_list[i], timeframe, TRUE)
             = ordinal(date_list[i], timeframe, FALSE)

C4_SplitRecordsInLog ==
    \E i, j \in 1..Len(date_list) :
        /\ i < j
        /\ date_list[i].is_range /\ date_list[j].is_range
        /\ date_list[i].second_date = arrow_ceil(date_list[i].first_date, timeframe)
        /\ date_list[j].first_date = date_list[i].second_date + 1
        /\ date_list[j].first_date < date_list[j].second_date

\* C5: start() in the Idle state sets start_time to now, making the
\* tracker Active, and returns now.
C5_StartFromIdle ==
    (op = "start" /\ IsNone(pre_start))
    => /\ start_time = Some(current_point)
       /\ ret = Some(current_point)

C5_StartedFromIdle ==
    /\ op = "start" /\ IsNone(pre_start)
    /\ ~overwrite
    /\ ~IsNone(start_time)
    /\ Len(data_file) > 0

\* C6: start(overwrite=false) while Active with now in the period of the
\* stored start_time is a no-op: it returns nothing and leaves start_time
\* and the log unchanged.
C6_StartAgainIsNoOp ==
    (op = "start" /\ ~overwrite /\ ~IsNone(pre_start)
       /\ same(current_point, Get(pre_start), timeframe))
    => /\ ret = None
       /\ start_time = pre_start
       /\ data_file = pre_log

C6_StartedAgainLater ==
    /\ op = "start" /\ ~overwrite /\ ~IsNone(pre_start)
    /\ same(current_point, Get(pre_start), timeframe)
    /\ Get(pre_start).first_date < now
    /\ ret = None

\* C7: start() while Active, when the stored start_time is in another
\* period than now or when overwrite=true, sets start_time to now, returns
\* now and appends nothing to the log.
C7_StartOverwrites ==
    (op = "start" /\ ~IsNone(pre_start)
       /\ (~same(current_point, Get(pre_start), timeframe) \/ overwrite))
    => /\ start_time = Some(current_point)
       /\ ret = Some(current_point)
       /\ data_file = pre_log

C7_SessionDiscarded ==
    /\ op = "start" /\ overwrite /\ ~IsNone(pre_start)
    /\ same(current_point, Get(pre_start), timeframe)
    /\ Get(pre_start).first_date < now
    /\ start_time = Some(current_point)

\* C8: stop() in the Idle state is a no-op: it returns nothing, appends
\* nothing to the log and leaves start_time absent.
C8_StopWhenIdle ==
    (op = "stop" /\ IsNone(pre_start))
    => /\ ret = None
       /\ data_file = pre_log
       /\ IsNone(start_time)

C8_StoppedWhenIdle ==
    /\ op = "stop" /\ IsNone(pre_start)
    /\ ret = None
    /\ Len(data_file) > 0

\* C9: the session state survives a restart: what the process held as
\* start_time when it exited normally (Active with that start after start(),
\* Idle after stop()) is what the next invocation observes.
C9_SurvivesRestart == op = "close" => start_time = pre_start

\* total of the last timeframe group of `dates`: the trailing records that
\* share the last record's period
last_group_total(dates) ==
    LET n == Len(dates)
        lo == CHOOSE j \in 1..n :
                /\ \A k \in j..n : same(dates[k], dates[n], Timeframe_day)
                /\ j > 1 => ~same(dates[j - 1], dates[n], Timeframe_day)
        sum[i \in (lo - 1)..n] ==
            IF i = lo - 1 THEN 0 ELSE sum[i - 1] + total_time(dates[i])
    IN  sum[n]

finish_expected(dates) ==
    \/ Len(dates) = 0
    \/ /\ Len(dates) > 0
       /\ \/ today > ordinal(dates[Len(dates)], Timeframe_day, TRUE)
          \/ /\ today = ordinal(dates[Len(dates)], Timeframe_day, TRUE)
             /\ last_group_total(dates) < HourTicks

\* C10: finish() appends exactly one non-range marker anchored at now and
\* returns it if and only if the log is empty, or now's period is strictly
\* after the last record's, or now is in the last record's period and the
\* last timeframe group's total is below the threshold; otherwise it
\* returns nothing and leaves the log unchanged.
C10_FinishRecordsIff ==
    op = "finish"
    => IF finish_expected(read_dates(pre_log))
       THEN /\ log_extends
            /\ appended = <<current_point>>
            /\ ret = Some(current_point)
       ELSE /\ ret = None
            /\ data_file = pre_log

C10_FinishedUnfinishedPeriod ==
    /\ op = "finish" /\ Len(pre_log) > 0
    /\ same(current_point, read_dates(pre_log)[Len(pre_log)], timeframe)
    /\ ret = Some(current_point)

\* total_time_on(now) as the last operation found it
pre_total_time_on_now ==
    total_time_on_in(group_timeframes(read_dates(pre_log), timeframe), now)

\* C11: whenever now's period is already finished (total_time_on(now) >=
\* finished_threshold), finish() is a no-op: it returns nothing and the log
\* is unchanged.
C11_FinishedPeriodFinishNoOp ==
    (op = "finish" /\ pre_total_time_on_now >= finished_threshold)
    => /\ ret = None
       /\ data_file = pre_log

\* the configurations a tracker can be built from
Configs ==
    {ConfigManager(tf, threshold) :
        tf \in {None} \cup {Some(t) : t \in Timeframes},
        threshold \in {None} \cup {Some(k) : k \in 1..DayTicks}}

\* C12: a finish marker contributes exactly the configured finished
\* threshold: for every configured finished_threshold, after a finish()
\* that appends a marker the period of now is finished (its total time is
\* at least that threshold).
C12_MarkerFinishesPeriod ==
    \A config \in Configs :
        (op = "finish" /\ ~IsNone(ret))
        => period_total(today) >= config.finished_threshold

\* C13: the tracker's finished_threshold and timeframe are the values held
\* by its configuration, and it decides 'finished' with them.
C13_ProjectUsesConfig ==
    \A config \in Configs :
        /\ Project(config).finished_threshold = config.finished_threshold
        /\ Project(config).timeframe = config.timeframe
        /\ \A i \in 1..Len(timeframe_groups) :
              is_finished(timeframe_groups[i])
              <=> group_total_time(timeframe_groups[i])
                    >= config.finished_threshold

C15_NoFinishedPeriodNoStreak ==
    (Len(date_list) > 0 /\ \A d \in 0..MaxDays : ~period_finished(d))
    => /\ finished_streaks = <<>>
       /\ IsNone(current_streak)
       /\ streak = 0
       /\ \A gs \in GeneratorStop :
             /\ ~finished_streaks_raises(gs)
             /\ ~current_streak_raises(gs)
             /\ ~streak_raises(gs)

\* C16: with an empty log no query raises and each yields an empty or zero
\* result: timeframe_groups and finished_streaks are empty, streak is 0,
\* current_streak is none, total_time_on is zero for every date, the range
\* queries and streaks_boolean return empty lists, and binary_groupby
\* yields no runs on an empty input.
C16_EmptyLogQueries ==
    Len(date_list) = 0
    => /\ \A gs \in GeneratorStop :
             /\ ~binary_groupby_raises(<<>>, gs)
             /\ ~timeframe_groups_raises(gs)
             /\ ~finished_streaks_raises(gs)
             /\ ~current_streak_raises(gs)
             /\ ~streak_raises(gs)
             /\ \A d \in Instants : ~total_time_on_raises(d, gs)
             /\ ~timeframe_range_raises(None, None, gs)
             /\ ~filled_range_raises(None, None, gs)
             /\ ~streaks_range_raises(None, None, FALSE, gs)
             /\ ~streaks_boolean_raises(None, None, gs)
       /\ binary_groupby(<<>>, <<>>) = <<>>
       /\ timeframe_groups = <<>>
       /\ finished_streaks = <<>>
       /\ IsNone(current_streak)
       /\ streak = 0
       /\ \A d \in Instants : total_time_on(d) = 0
       /\ filled_range(None, None) = <<>>
       /\ streaks_boolean(None, None) = <<>>

\* C17: in every reachable state total_time_on(d) is the sum of total_time
\* over the log records anchored in d's period, zero when there is none.
C17_TotalTimeOnIsPeriodSum ==
    \A d \in Instants :
        total_time_on(d)
            = period_total(ordinal(DatePoint(d, None), Timeframe_day, TRUE))

\* the part of the in-progress session that lies in now's period
session_time_in_current_period ==
    IF IsNone(start_time)
    THEN 0
    ELSE LET period_start == arrow_floor(now, Timeframe_day)
             began == Get(start_time).first_date
         IN  now - (IF began > period_start THEN began ELSE period_start)

\* C18: total_time_current is the recorded total of now's period plus only
\* the part of the in-progress session inside now's period, so it never
\* exceeds the time elapsed since the start of the current period.
C18_CurrentTotalWithinPeriod ==
    /\ total_time_current
           = total_time_on(now) + session_time_in_current_period
    /\ total_time_current <= now - arrow_floor(now, Timeframe_day)

\* C19: streaks_boolean(start, end) has one entry per period of
\* filled_range(start, end), in order; an entry is true iff that period's
\* total_time_on reaches the threshold, otherwise false, except that the
\* last entry is unknown when it would be false and the range ends in
\* now's period; no entry for a period other than now's is unknown.
C19_StreaksBooleanPerPeriod ==
    \A s \in Instants, e \in Instants :
        s <= e =>
            LET range_start == Some(DatePoint(s, None))
                range_end == Some(DatePoint(e, None))
                frames == filled_range(range_start, range_end)
                result == streaks_boolean(range_start, range_end)
            IN  /\ Len(result) = Len(frames)
                /\ \A i \in 1..Len(result) :
                      LET is_today ==
                              ordinal(DatePoint(frames[i], None),
                                      Timeframe_day, TRUE) = today
                      IN  /\ result[i] =
                              IF total_time_on(frames[i]) >= finished_threshold
                              THEN "True"
                              ELSE IF /\ i = Len(result)
                                      /\ same(current_point, Get(range_end),
                                              Timeframe_day)
                                   THEN "None"
                                   ELSE "False"
                          /\ (result[i] = "None" => is_today)

\* C20: filled_range(start, end) with start <= end has exactly one instant
\* per period from start's period through end's period, in increasing
\* order, whatever the times of day of start and end and whatever the log.
C20_FilledRangeEveryPeriod ==
    \A s \in Instants, e \in Instants :
        s <= e =>
            LET frames == filled_range(Some(DatePoint(s, None)),
                                       Some(DatePoint(e, None)))
                first == ordinal(DatePoint(s, None), Timeframe_day, TRUE)
                last == ordinal(DatePoint(e, None), Timeframe_day, TRUE)
            IN  /\ Len(frames) = last - first + 1
                /\ \A i \in 1..Len(frames) :
                      ordinal(DatePoint(frames[i], None), Timeframe_day, TRUE)
                          = first + i - 1

\* the period of an instant
period_of(t) == ordinal(DatePoint(t, None), Timeframe_day, TRUE)

\* the periods of the groups of one streak
streak_periods(groups) ==
    {group_ordinal(groups[i], Timeframe_day) : i \in 1..Len(groups)}

\* streaks_range returns a value: it does not fail on an empty end filter
streaks_range_returns(range_start, range_end, strict) ==
    \E gs \in GeneratorStop :
        ~streaks_range_raises(range_start, range_end, strict, gs)

\* C21: when non-strict streaks_range(start, end) returns, it returns in
\* order exactly the streaks of finished_streaks with at least one group
\* in a period at or after start's and at least one group in a period at
\* or before end's.
C21_NonStrictStreaksRange ==
    \A s \in Instants, e \in Instants :
        LET range_start == Some(DatePoint(s, None))
            range_end == Some(DatePoint(e, None))
            wanted(groups) ==
                /\ \E d \in streak_periods(groups) : d >= period_of(s)
                /\ \E d \in streak_periods(groups) : d <= period_of(e)
        IN  streaks_range_returns(range_start, range_end, FALSE)
            => streaks_range(range_start, range_end, FALSE)
                   = SelectSeq(finished_streaks, wanted)

\* C22: when strict streaks_range(start, end, strict=true) returns, it
\* returns in order exactly the streaks of finished_streaks all of whose
\* groups lie in periods strictly after start's and strictly before end's.
C22_StrictStreaksRange ==
    \A s \in Instants, e \in Instants :
        LET range_start == Some(DatePoint(s, None))
            range_end == Some(DatePoint(e, None))
            wanted(groups) ==
                \A d \in streak_periods(groups) :
                    d > period_of(s) /\ d < period_of(e)
        IN  streaks_range_returns(range_start, range_end, TRUE)
            => streaks_range(range_start, range_end, TRUE)
                   = SelectSeq(finished_streaks, wanted)

\* the anchor instant of a group
group_anchor(group) == group.group_date.first_date

\* C23: in every reachable state timeframe_range(start, end) returns, in
\* order, exactly the timeframe groups whose anchor instant lies in
\* [start, end]; with both bounds omitted it returns every group whose
\* anchor is at or before now.
C23_TimeframeRangeByAnchor ==
    LET frames == timeframe_groups
        at_or_before_now(group) == group_anchor(group) <= now
    IN  /\ \A s \in Instants, e \in Instants :
              LET within(group) ==
                      group_anchor(group) >= s /\ group_anchor(group) <= e
              IN  timeframe_range(Some(DatePoint(s, None)),
                                  Some(DatePoint(e, None)))
                      = SelectSeq(frames, within)
        /\ timeframe_range(None, None) = SelectSeq(frames, at_or_before_now)

\* the Temporal Points over the instants: markers, and ranges that end
\* no earlier than they start
TemporalPoints ==
    {DatePoint(t, None) : t \in Instants}
    \cup {DatePoint(p[1], Some(p[2])) :
              p \in {q \in Instants \X Instants : q[1] <= q[2]}}

\* C24: for every Temporal Point p, range or not (the records of the log
\* and the current instant among them), unfreeze(freeze(p)) == p evaluates
\* to true.
C24_FreezeRoundTrip ==
    \A p \in TemporalPoints \cup items(date_list) \cup {current_point} :
        LET thawed == unfreeze(freeze(p))
        IN  /\ ~IsNone(thawed)
            /\ ~DatePoint_eq_raises(Get(thawed), p)
            /\ DatePoint_eq(Get(thawed), p)

\* C25: the log is append-only and state changes are confined to their
\* operations: after any operation the previous log is a prefix of the new
\* log; only stop and finish change the log, only start and stop change
\* start_time, and a query changes neither.  (The end of the process, the
\* close step, is not one of these operations: C9 is about it.)
C25_AppendOnlyAndConfined ==
    [][/\ Len(data_file) <= Len(data_file')
       /\ SubSeq(data_file', 1, Len(data_file)) = data_file
       /\ (data_file' # data_file => op' \in {"stop", "finish"})
       /\ ((start_time' # start_time /\ op' # "close")
              => op' \in {"start", "stop"})
       /\ (op' = "query"
              => data_file' = data_file /\ start_time' = start_time)]_vars

C25_StopAppendedToLog ==
    /\ op = "stop"
    /\ Len(pre_log) > 0
    /\ Len(data_file) = Len(pre_log) + 2
    /\ IsNone(start_time)
    /\ ~IsNone(pre_start)

\* the ranges over the instants, and the range of the open session
Ranges ==
    {DatePoint(p[1], Some(p[2])) :
         p \in {q \in Instants \X Instants : q[1] <= q[2]}}

session_ranges ==
    IF IsNone(start_time)
    THEN {}
    ELSE {DatePoint(Get(start_time).first_date, Some(now))}

\* C26: split_range on a range [s, e] spanning k periods yields k pieces,
\* each confined to one period (it may end on the instant the next period
\* begins), covering [s, e] with no gap and no overlap: the first piece
\* starts at s, the last ends at e, and each piece starts at the instant
\* where the previous one ends.
C26_SplitCoversRange ==
    \A r \in Ranges \cup session_ranges :
        LET pieces == split_range(r, Timeframe_day)
            k == period_of(r.second_date) - period_of(r.first_date) + 1
        IN  /\ Len(pieces) = k
            /\ \A i \in 1..Len(pieces) :
                  /\ pieces[i].first_date <= pieces[i].second_date
                  /\ pieces[i].second_date
                         <= arrow_ceil(pieces[i].first_date, Timeframe_day) + 1
            /\ pieces[1].first_date = r.first_date
            /\ pieces[Len(pieces)].second_date = r.second_date
            /\ \A i \in 1..(Len(pieces) - 1) :
                  pieces[i + 1].first_date = pieces[i].second_date

\* total_time summed over a list of points
sum_total_time(dates) ==
    LET sum[i \in 0..Len(dates)] ==
            IF i = 0 THEN 0 ELSE sum[i - 1] + total_time(dates[i])
    IN  sum[Len(dates)]

\* C27: for start() at T1 followed by stop() at T2 >= T1, the total_time of
\* the records stop appended sums to T2 - T1, whether or not [T1, T2]
\* crosses period boundaries.
C27_SessionTimeConserved ==
    (op = "stop" /\ ~IsNone(pre_start))
    => sum_total_time(appended) = now - Get(pre_start).first_date

\* C28: in every state reachable by start/stop/finish from an empty log
\* under a non-decreasing clock, timeframe_groups has strictly increasing
\* ordinals, so at most one group exists for any period.
C28_GroupsStrictlyIncreasing ==
    LET frames == timeframe_groups
    IN  \A i \in 1..(Len(frames) - 1) :
            group_ordinal(frames[i], Timeframe_day)
                < group_ordinal(frames[i + 1], Timeframe_day)

\* the concatenation of a sequence of sequences
concatenation(lists) ==
    LET cat[i \in 0..Len(lists)] ==
            IF i = 0 THEN <<>> ELSE cat[i - 1] \o lists[i]
    IN  cat[Len(lists)]

\* runs are the maximal runs of input under the predicate adjacent
maximal_runs(input, adjacent, runs) ==
    /\ \A i \in 1..Len(runs) : Len(runs[i]) > 0
    /\ concatenation(runs) = input
    /\ \A i \in 1..Len(runs) :
          \A j \in 1..(Len(runs[i]) - 1) :
              adjacent[runs[i][j], runs[i][j + 1]]
    /\ \A i \in 1..(Len(runs) - 1) :
          ~adjacent[runs[i][Len(runs[i])], runs[i + 1][1]]

\* the two places that call binary_groupby: the log under same, the
\* finished groups under within_streak
same_period ==
    [x \in items(date_list), y \in items(date_list)
        |-> same(x, y, Timeframe_day)]

\* C29: binary_groupby on a non-empty sequence with predicate adjacent
\* yields non-empty runs whose concatenation is the input in order; every
\* consecutive pair inside a run satisfies adjacent, and the last item of
\* a run and the first item of the next do not.  (Checked on the inputs
\* of its two calls whenever a query makes them.)
C29_GroupbyMaximalRuns ==
    LET dates == date_list
        groups == finished_groups
        in_streak == [x \in items(groups), y \in items(groups)
                         |-> within_streak(x.group_date, y.group_date,
                                           Timeframe_day)]
    IN  op = "query" =>
            /\ Len(dates) > 0
               => maximal_runs(dates, same_period,
                               binary_groupby(dates, same_period))
            /\ Len(groups) > 0
               => maximal_runs(groups, in_streak,
                               binary_groupby(groups, in_streak))

C29_TwoRunsOneOfTwo ==
    LET runs == binary_groupby(date_list, same_period)
    IN  /\ op = "query"
        /\ Len(date_list) = 3
        /\ Len(runs) = 2
        /\ Len(runs[1]) = 2

\* the points are in the order of their anchors
chronological(dates) ==
    \A i \in 1..(Len(dates) - 1) :
        dates[i].first_date <= dates[i + 1].first_date

\* the members of a sequence of groups, group after group
members(groups) ==
    concatenation([i \in 1..Len(groups) |-> groups[i].date_list])

C31_StreakAdjacencyLaw ==
    op = "query" =>
        LET streaks == finished_streaks
        IN  /\ \A i \in 1..Len(streaks) :
                  /\ Len(streaks[i]) > 0
                  /\ \A j \in 1..Len(streaks[i]) :
                        group_total_time(streaks[i][j]) >= finished_threshold
                  /\ \A j \in 1..(Len(streaks[i]) - 1) :
                        within_streak(streaks[i][j].group_date,
                                      streaks[i][j + 1].group_date,
                                      Timeframe_day)
            /\ \A i \in 1..(Len(streaks) - 1) :
                  ~within_streak(streaks[i][Len(streaks[i])].group_date,
                                 streaks[i + 1][1].group_date,
                                 Timeframe_day)

C31_TwoStreaksAroundUnfinished ==
    /\ op = "query"
    /\ Len(finished_streaks) = 2
    /\ Len(timeframe_groups) = 3

\* two years of instants, and the current one
CalendarInstants == 0..(2 * YearTicks) \cup {now}

\* C32: ordinals are monotone for every timeframe: for all instants a < b,
\* ordinal(a, tf) is defined and ordinal(a, tf) <= ordinal(b, tf).
C32_OrdinalMonotone ==
    \A tf \in Timeframes :
        \A a \in CalendarInstants, b \in CalendarInstants :
            a < b =>
                /\ ~ordinal_raises(DatePoint(a, None), tf, TRUE)
                /\ ~ordinal_raises(DatePoint(b, None), tf, TRUE)
                /\ ordinal(DatePoint(a, None), tf, TRUE)
                       <= ordinal(DatePoint(b, None), tf, TRUE)

\* the calendar period of an instant, counted from the epoch
calendar_period(t, tf) ==
    CASE tf = "year" -> t \div YearTicks
      [] tf = "month" -> t \div MonthTicks
      [] tf = "week" -> t \div WeekTicks
      [] tf = "day" -> t \div DayTicks
      [] tf = "hour" -> (t \div DayTicks) * HoursPerDay
                            + ((t % DayTicks) \div HourTicks)
      [] tf = "minute" -> t \div MinuteTicks
      [] tf = "second" -> t

\* C33: for every timeframe, same(a, b, tf) holds iff a and b lie in the
\* same calendar period of tf, and consecutive(a, b, tf) holds iff their
\* periods are adjacent, across year boundaries too and for equal period
\* numbers in different years; both are defined wherever ordinal is.
C33_SameAndConsecutiveByPeriod ==
    \A tf \in Timeframes :
        \A a \in CalendarInstants, b \in CalendarInstants :
            LET p == DatePoint(a, None)
                q == DatePoint(b, None)
                distance == calendar_period(a, tf) - calendar_period(b, tf)
            IN  /\ ~ordinal_raises(p, tf, TRUE)
                /\ ~ordinal_raises(q, tf, TRUE)
                /\ same(p, q, tf) <=> distance = 0
                /\ consecutive(p, q, tf) <=> distance \in {-1, 1}

\* C34: for every timeframe tf on which the grouping returns, each group
\* of group_timeframes(points, tf) is anchored at the floor of its first
\* member to the start of that tf period, so the group's ordinal under tf
\* equals the ordinal under tf of every one of its members.
C34_GroupAnchoredAtPeriodStart ==
    \A tf \in Timeframes :
        LET dates == date_list
            groups == group_timeframes(dates, tf)
        IN  (\A i \in 1..Len(dates) : ~ordinal_raises(dates[i], tf, TRUE))
            => \A g \in 1..Len(groups) :
                   /\ group_anchor(groups[g])
                          = arrow_floor(groups[g].date_list[1].first_date, tf)
                   /\ \A m \in 1..Len(groups[g].date_list) :
                          group_ordinal(groups[g], tf)
                              = ordinal(groups[g].date_list[m], tf, TRUE)

\* C35: equality p == q is defined for every pair of Temporal Points (it
\* never fails, no operation reads the end instant of a non-range point)
\* and is true iff p and q agree on range-ness, have equal anchors and,
\* when both are ranges, equal end instants; two non-range points with
\* equal anchors compare equal.
C35_EqualityTotal ==
    \A p \in items(date_list) \cup {current_point} :
        \A q \in TemporalPoints :
            /\ ~DatePoint_eq_raises(p, q)
            /\ DatePoint_eq(p, q)
                   <=> /\ p.is_range = q.is_range
                       /\ p.first_date = q.first_date
                       /\ p.is_range => p.second_date = q.second_date

\* rows whose tag is neither '0' nor '1': the empty string, rows with a
\* foreign tag, and the rows of the log with their tag replaced
MalformedRows ==
    {<<>>, <<"2", 0>>, <<"x">>, <<SEPERATOR_CHAR, 0>>}
    \cup {<<"2">> \o Tail(data_file[i]) : i \in 1..Len(data_file)}

\* C36: unfreeze returns none, without raising, for every string whose tag
\* is not '0' or '1', including the empty string.
C36_UnfreezeSkipsMalformed ==
    \A row \in MalformedRows :
        /\ ~unfreeze_raises(row)
        /\ IsNone(unfreeze(row))

\* the start and end arguments streaks_range accepts: a point or None
Boundaries == {None} \cup {Some(DatePoint(t, None)) : t \in Instants}

\* C37: for every start, end and strict flag and every log with at least
\* one finished streak, streaks_range returns a list and never raises; when
\* some streak passes the start filter but none passes the end filter it
\* returns the empty list.
C37_StreaksRangeNeverRaises ==
    LET streaks == finished_streaks
    IN  Len(streaks) > 0 =>
            \A range_start \in Boundaries, range_end \in Boundaries :
                \A strict \in BOOLEAN, gs \in GeneratorStop :
                    /\ ~streaks_range_raises(range_start, range_end, strict, gs)
                    /\ LET b == fill_boundries(range_start, range_end)
                       IN  (~\E i \in 1..Len(streaks) :
                                endf(streaks[i], Get(b.end), strict))
                               => streaks_range(range_start, range_end, strict)
                                      = <<>>

====
